---- MODULE Spec2Model ----
(***************************************************************************)
(* Duplicate photo detection of facet (utils/duplicate.py): the photos     *)
(* table of one SQLite database, the scoring configuration, and one run of *)
(* detect_duplicates as a state machine over its statements.               *)
(*                                                                         *)
(* Identifiers (photos.path) are the integers 1..n: the integer order      *)
(* stands for the order SQLite's ORDER BY path gives the path strings.     *)
(* A nullable column or value is a sequence: <<>> is NULL/None and <<v>>   *)
(* is the value v.  A pHash is a string, Chars giving the sequence of its  *)
(* characters; a uint64 is the sequence of its 8 bytes, byte_idx 0 first.  *)
(* A score (photos.aggregate) is an integer number of score units.         *)
(***************************************************************************)
EXTENDS Integers, Sequences, FiniteSets, TLC

\* ------------------------------------------------------------ bounds

\* Photos in the store of the specification Spec.
NumPhotos == 3
\* Photos in the store of the specification SpecWide.
NumWide == 6
\* Photos in the store of the specification SpecConfig.
NumSmall == 2
\* Photos in the store, and greatest small chunk size, of SpecChunks.
NumChunked == 4
\* Bit positions, spread over 0..63, of the values of SpecDistance.
NumProbeBits == 6
\* The elements of a _UnionFind used on its own.
NumElements == 4
\* The threads serving api_start_scan requests, the scan subprocesses started
\* and the lines a subprocess prints.
NumRequests == 2
NumScans == 2
NumLines == 1

\* ------------------------------------------------------- nullable values

NULL == <<>>
Some(v) == <<v>>
IsNull(x) == x = NULL
Val(x) == x[1]

\* ------------------------------------------------- pHash strings, uint64

\* Four pHash strings: Hash0 and Hash6 differ in 6 bits, Hash6 and Hash12 in 6,
\* Hash0 and Hash12 in 12, and HashFar in more than 50 bits from each.
Hash0   == "0000000000000000"
Hash6   == "8000000000000037"
Hash12  == "80000000003f0037"
HashFar == "7FFFFFFFFFFFFF00"
\* Hash12 with its letter in upper case.
Hash12Upper == "80000000003F0037"
\* Two strings that are no pHash: one with a character that is no hex digit,
\* one of 17 digits whose value is 2^64 + 2^63 + 55.
HashBad  == "8000000000000g37"
HashLong == "18000000000000037"

\* The characters of each of these strings.
Chars ==
    Hash0   :> <<"0","0","0","0","0","0","0","0","0","0","0","0","0","0","0","0">> @@
    Hash6   :> <<"8","0","0","0","0","0","0","0","0","0","0","0","0","0","3","7">> @@
    Hash12  :> <<"8","0","0","0","0","0","0","0","0","0","3","f","0","0","3","7">> @@
    HashFar :> <<"7","F","F","F","F","F","F","F","F","F","F","F","F","F","0","0">> @@
    Hash12Upper :> <<"8","0","0","0","0","0","0","0","0","0","3","F","0","0","3","7">> @@
    HashBad :> <<"8","0","0","0","0","0","0","0","0","0","0","0","0","g","3","7">> @@
    HashLong :> <<"1","8","0","0","0","0","0","0","0","0","0","0","0","0","0","3","7">>

\* The digits int(hex_str, 16) reads, in either case, and their values.
HexDigitValue ==
    "0" :> 0 @@ "1" :> 1 @@ "2" :> 2 @@ "3" :> 3 @@ "4" :> 4 @@ "5" :> 5 @@
    "6" :> 6 @@ "7" :> 7 @@ "8" :> 8 @@ "9" :> 9 @@
    "a" :> 10 @@ "b" :> 11 @@ "c" :> 12 @@ "d" :> 13 @@ "e" :> 14 @@ "f" :> 15 @@
    "A" :> 10 @@ "B" :> 11 @@ "C" :> 12 @@ "D" :> 13 @@ "E" :> 14 @@ "F" :> 15

IsHexDigit(c) == c \in DOMAIN HexDigitValue

\* int(hex_str, 16) raises ValueError on an empty string or a character that
\* is no hex digit (strings with a sign, a 0x prefix, blanks or underscores,
\* which int() also reads, are not among the modelled strings).
IsHexString(s) == Len(Chars[s]) >= 1 /\ \A k \in 1..Len(Chars[s]) : IsHexDigit(Chars[s][k])

\* An array conversion that keeps the low 64 bits of any value.
FitsAnyWidth(s) == TRUE

\* np.array(..., dtype=np.uint64) raises OverflowError on a value >= 2^64:
\* a digit other than 0 before the last 16.
FitsUint64(s) ==
    \A k \in 1..Len(Chars[s]) : k <= Len(Chars[s]) - 16 => HexDigitValue[Chars[s][k]] = 0

\* The k-th of the 16 low hex digits of the value, most significant first.
Nibble(s, k) ==
    LET at == Len(Chars[s]) - 16 + k
    IN  IF at >= 1 THEN HexDigitValue[Chars[s][at]] ELSE 0

\* _hex_to_uint64 followed by the conversion to np.uint64: the 8 bytes of the
\* value, entry b + 1 being (value >> (b * 8)) & 0xFF.
hex_to_uint64(hex_str) ==
    [b \in 1..8 |-> 16 * Nibble(hex_str, 17 - 2 * b) + Nibble(hex_str, 18 - 2 * b)]

RECURSIVE BitCount(_)
\* bin(v).count('1')
BitCount(v) == IF v = 0 THEN 0 ELSE (v % 2) + BitCount(v \div 2)

\* A table that leaves out the top bit of every byte.
PopcountLow7 == [v \in 0..255 |-> BitCount(v % 128)]

\* _POPCOUNT_TABLE: the popcount of every byte value.
POPCOUNT_TABLE == [v \in 0..255 |-> BitCount(v)]

RECURSIVE XorBits(_, _, _)
\* np.bitwise_xor on the low nbits bits of a and b.
XorBits(a, b, nbits) ==
    IF nbits = 0 THEN 0
    ELSE ((a + b) % 2) + 2 * XorBits(a \div 2, b \div 2, nbits - 1)

\* xor_result of two uint64 values, byte by byte.
bitwise_xor(x, y) == [b \in 1..8 |-> XorBits(x[b], y[b], 8)]

RECURSIVE SumBytes(_, _)
SumBytes(xor_result, byte_idx) ==
    IF byte_idx = 8 THEN 0
    ELSE POPCOUNT_TABLE[xor_result[byte_idx + 1]] + SumBytes(xor_result, byte_idx + 1)

\* distances[...] of one pair: the popcount table summed over the 8 bytes of
\* the xor.
Distance(x, y) == SumBytes(bitwise_xor(x, y), 0)

\* ------------------------------------------------------------ threshold

\* A conversion of the quotient num / 100 that rounds to the nearest integer.
RoundDiv100(num) == (num + 50) \div 100

\* Python's int() of a quotient num / 100: truncation toward zero.
TruncDiv100(num) == IF num >= 0 THEN num \div 100 ELSE -((-num) \div 100)

\* settings.get('similarity_threshold_percent', 90)
SimilarityPct(setting) == IF IsNull(setting) THEN 90 ELSE Val(setting)

\* A threshold that grows with the percent: int(64 * similarity_pct / 100).
MaxDistanceRising(similarity_pct) == TruncDiv100(64 * similarity_pct)

\* int(64 * (1 - similarity_pct / 100)).  The doubles of the source give the
\* value of exact arithmetic for every integer percent: similarity_pct / 100
\* is exact when 25 divides the percent, and otherwise the exact product lies
\* at least 1/25 from every integer, far beyond the rounding of two double
\* operations (the product with 64 is exact).
MaxDistance(similarity_pct) == TruncDiv100(64 * (100 - similarity_pct))

\* ------------------------------------------------------------ union-find

\* _UnionFind.__init__
UnionFind(n) == [parent |-> [x \in 0..(n - 1) |-> x], rank |-> [x \in 0..(n - 1) |-> 0]]

\* A find that returns the parent of x, not the end of the parent links.
FindLoopParent(parent, x) == [parent |-> parent, root |-> parent[x]]

RECURSIVE FindLoop(_, _)
\* The while loop of find: parent after the path halving, and the root.
FindLoop(parent, x) ==
    IF parent[x] = x THEN [parent |-> parent, root |-> x]
    ELSE LET halved == [parent EXCEPT ![x] = parent[parent[x]]]
         IN  FindLoop(halved, halved[x])

\* _UnionFind.find: the structure after the call and the value returned.
find(u, x) ==
    LET r == FindLoop(u.parent, x)
    IN  [uf |-> [u EXCEPT !.parent = r.parent], root |-> r.root]

\* A link that always hangs the second root under the first.
LinkUnderFirst(u, ra, rb) ==
    [parent |-> [u.parent EXCEPT ![rb] = ra],
     rank   |-> IF u.rank[ra] = u.rank[rb]
                THEN [u.rank EXCEPT ![ra] = u.rank[ra] + 1]
                ELSE u.rank]

\* A link by rank that never raises a rank.
LinkKeepRank(u, ra, rb) ==
    LET hi == IF u.rank[ra] < u.rank[rb] THEN rb ELSE ra
        lo == IF u.rank[ra] < u.rank[rb] THEN ra ELSE rb
    IN  [parent |-> [u.parent EXCEPT ![lo] = hi], rank |-> u.rank]

\* The link of two distinct roots by rank (lines 32-36).
Link(u, ra, rb) ==
    LET hi == IF u.rank[ra] < u.rank[rb] THEN rb ELSE ra
        lo == IF u.rank[ra] < u.rank[rb] THEN ra ELSE rb
    IN  [parent |-> [u.parent EXCEPT ![lo] = hi],
         rank   |-> IF u.rank[hi] = u.rank[lo]
                    THEN [u.rank EXCEPT ![hi] = u.rank[hi] + 1]
                    ELSE u.rank]

\* union linking the two elements instead of their roots.
UnionElements(u, a, b) == [u EXCEPT !.parent[b] = a]

\* _UnionFind.union
union(u, a, b) ==
    LET fa == find(u, a)
        fb == find(fa.uf, b)
    IN  IF fa.root = fb.root THEN fb.uf ELSE Link(fb.uf, fa.root, fb.root)

\* ------------------------------------------------------ groups and leads

\* dict.get / "root in groups" on the insertion-ordered dict groups, kept as
\* the sequence of its items [root, members].
HasKey(groups, root) == \E k \in 1..Len(groups) : groups[k].root = root

\* groups[root].append(idx), after groups[root] = [] for a new root.
AppendMember(groups, root, idx) ==
    IF HasKey(groups, root)
    THEN [k \in 1..Len(groups) |->
            IF groups[k].root = root
            THEN [groups[k] EXCEPT !.members = Append(groups[k].members, idx)]
            ELSE groups[k]]
    ELSE Append(groups, [root |-> root, members |-> <<idx>>])

RECURSIVE CollectLoop(_, _, _, _)
\* for idx in range(n): root = uf.find(idx); groups[root].append(idx)
CollectLoop(u, groups, idx, size) ==
    IF idx = size THEN [uf |-> u, groups |-> groups]
    ELSE LET f == find(u, idx)
         IN  CollectLoop(f.uf, AppendMember(groups, f.root, idx), idx + 1, size)

\* The dict comprehension of line 130: the groups with 2+ members.
FilterGroups(groups) == SelectSeq(groups, LAMBDA it : Len(it.members) >= 2)

\* dup_groups.items() as the dict yields them, in insertion order.
UnsortedItems(items) == items

RECURSIVE SortedItems(_)
\* sorted(dup_groups.items()): the items in ascending order of their key, the
\* union-find root (keys are distinct, so the members never decide).
SortedItems(items) ==
    IF Len(items) = 0 THEN <<>>
    ELSE LET k == CHOOSE a \in 1..Len(items) :
                    \A b \in 1..Len(items) : items[a].root <= items[b].root
         IN  <<items[k]>> \o SortedItems(SelectSeq(items, LAMBDA it : it.root # items[k].root))

\* r['aggregate'] or 0.0
ScoreOrZero(aggregate) == IF IsNull(aggregate) THEN 0 ELSE Val(aggregate)

\* A max() that keeps the last of the greatest elements.
BetterOrEqual(key_new, key_best) == key_new >= key_best

\* One comparison of max(): the later element replaces the best so far only
\* when its key is strictly greater.
Better(key_new, key_best) == key_new > key_best

RECURSIVE MaxLoop(_, _, _, _)
MaxLoop(members, keys, k, best) ==
    IF k > Len(members) THEN best
    ELSE MaxLoop(members, keys, k + 1,
                 IF Better(keys[members[k]], keys[best]) THEN members[k] ELSE best)

\* max(members, key=lambda idx: aggregates[idx]): the first member, in the
\* order of the list, whose key is maximal.
BestIdx(members, keys) == MaxLoop(members, keys, 2, members[1])

\* ------------------------------------------------------------- the store

\* The group/lead columns of every row of photos.
Marks(table) ==
    [p \in DOMAIN table |->
        [duplicate_group_id |-> table[p].duplicate_group_id,
         is_duplicate_lead  |-> table[p].is_duplicate_lead]]

\* The clearing UPDATE with WHERE phash IS NOT NULL.
ClearHashed(table) ==
    [p \in DOMAIN table |->
        IF IsNull(table[p].phash) THEN table[p]
        ELSE [table[p] EXCEPT !.duplicate_group_id = NULL, !.is_duplicate_lead = 0]]

\* UPDATE photos SET duplicate_group_id = NULL, is_duplicate_lead = 0
ClearAll(table) ==
    [p \in DOMAIN table |->
        [table[p] EXCEPT !.duplicate_group_id = NULL, !.is_duplicate_lead = 0]]

\* An UPDATE that also sets aggregate = 0 in the row.
UpdateMarksAndScore(table, gid, is_lead, path) ==
    [p \in DOMAIN table |->
        IF p = path
        THEN [table[p] EXCEPT !.duplicate_group_id = Some(gid), !.is_duplicate_lead = is_lead,
                              !.aggregate = Some(0)]
        ELSE table[p]]

\* UPDATE photos SET duplicate_group_id = ?, is_duplicate_lead = ? WHERE path = ?
UpdateMarks(table, gid, is_lead, path) ==
    [p \in DOMAIN table |->
        IF p = path
        THEN [table[p] EXCEPT !.duplicate_group_id = Some(gid), !.is_duplicate_lead = is_lead]
        ELSE table[p]]

\* SELECT path, phash, aggregate FROM photos WHERE phash IS NOT NULL ORDER BY
\* path: the selected paths in ascending order, as a list indexed from 0.
RECURSIVE OrderByPathDesc(_)
\* The rows under ORDER BY path DESC.
OrderByPathDesc(S) ==
    IF S = {} THEN <<>>
    ELSE LET hi == CHOOSE p \in S : \A q \in S : q <= p
         IN  <<hi>> \o OrderByPathDesc(S \ {hi})

RECURSIVE OrderByPath(_)
OrderByPath(S) ==
    IF S = {} THEN <<>>
    ELSE LET lo == CHOOSE p \in S : \A q \in S : p <= q
         IN  <<lo>> \o OrderByPath(S \ {lo})

SelectRows(table) ==
    LET ordered == OrderByPath({p \in DOMAIN table : ~IsNull(table[p].phash)})
    IN  [k \in 0..(Len(ordered) - 1) |-> ordered[k + 1]]

Size(list) == Cardinality(DOMAIN list)

\* chunk_size = 1000
chunk_size == 1000

\* The lines of output kept (viewer/scan/routes.py lines 30-31).
output_cap == 500

\* sqlite3.connect(db_path, isolation_level=None): every statement commits.
ConnectAutocommit == [autocommit |-> TRUE, view |-> NULL]

\* sqlite3.connect(db_path): a connection in the sqlite3 module's default
\* transaction mode (an UPDATE opens a transaction that lasts until commit),
\* with nothing pending.
Connect == [autocommit |-> FALSE, view |-> NULL]

\* apply_pragmas(conn), of db/connection.py: PRAGMA statements, which leave
\* the connection's transaction mode as it is.
apply_pragmas(c) == c

\* The table as the connection c sees it: its pending writes, if any.
ViewOf(c, table) == IF IsNull(c.view) THEN table ELSE Val(c.view)

\* conn.execute(UPDATE ...) yielding `updated`: the committed table after it,
\* and the connection after it.
StoredAfter(c, table, updated) == IF c.autocommit THEN updated ELSE table
ConnAfter(c, updated) == IF c.autocommit THEN c ELSE [c EXCEPT !.view = Some(updated)]

\* ------------------------------------------------------------- the state

VARIABLES
    photos,        \* the photos table, committed: path -> row
    config,        \* duplicate detection setting similarity_threshold_percent
    pc,            \* the statement detect_duplicates is at
    max_distance,  \* locals of detect_duplicates ...
    paths,
    aggregates,
    hashes,
    uf,
    i,             \* start of the current chunk
    abs_i,         \* row compared
    dup_groups,
    conn,          \* the open connection of the persist phase, or NULL
    group_id,
    g,             \* position in sorted(dup_groups.items()), from 1
    m,             \* position in members, from 1
    outcome,       \* how the last run ended
    old_marks,     \* history: the marks stored when the current run started
    after_prev,    \* history: the marks the run before the current one left
    twin,          \* the table of a second store with the same paths, hashes
                   \* and scores and no marks at first, under the same runs
    twin_conn,     \* ... and the connection to it, or NULL
    observed,      \* what another connection last read during the current
                   \* run: the marks, and the statement the run was at
    csize,         \* the value line 92 gives the local chunk_size
    calls,         \* history: the index pairs whose distance the current run
                   \* computed, and those it passed to uf.union, in order
    summary,       \* the counts the current run printed in its last line
                   \* (lines 166-169), or NULL
    probe,         \* two uint64 values and the distance computed for them
    last_commit,   \* history: the caller whose run committed last, or NULL
    other,         \* the locals of a second caller of detect_duplicates,
                   \* while the first is the one running
    prev_run,      \* history: the setting and the marks of the run before a
                   \* change of the setting, or NULL
    uf_call,       \* history: the last call made on uf by a user of
                   \* _UnionFind alone, with the structure before it
    scan_lock,     \* viewer/scan: _scan_lock, 0 or the request holding it
    scan_state,    \* viewer/scan: _scan_state
    request,       \* viewer/scan: the api_start_scan request of each thread
    scans          \* viewer/scan: the subprocesses started, with their
                   \* reader threads

\* The variables no statement of detect_duplicates reads or writes.
outside == <<other, prev_run, uf_call, scan_lock, scan_state, request, scans>>

vars == <<photos, config, pc, max_distance, paths, aggregates, hashes, uf, i,
          abs_i, dup_groups, conn, group_id, g, m, outcome, old_marks,
          after_prev, twin, twin_conn, observed, csize, calls, summary, probe,
          last_commit, outside>>

\* ------------------------------------------------------- the input pools

\* Stored pHash values of Spec: NULL or one of three strings.
HashPool == {NULL, Some(Hash0), Some(Hash6), Some(Hash12)}
\* Stored pHash values of SpecWide.
WidePool == {Some(Hash0), Some(Hash6), Some(Hash12), Some(HashFar)}
\* Stored pHash values of SpecErrors: NULL, two pHash strings, two that are none.
ErrPool == {NULL, Some(Hash0), Some(Hash6), Some(HashBad), Some(HashLong)}
\* Values of the setting similarity_threshold_percent: absent, every percent
\* of 0..100, and one below and one above.
PctPool == {NULL} \cup {Some(pct) : pct \in -1..101}
\* uint64 values: none of the bits, all of them, one bit, all but one bit.
Zero64 == [b \in 1..8 |-> 0]
Ones64 == [b \in 1..8 |-> 255]
OneBit(k) == [b \in 1..8 |-> IF b = (k \div 8) + 1 THEN 2 ^ (k % 8) ELSE 0]
AllButBit(k) == [b \in 1..8 |-> IF b = (k \div 8) + 1 THEN 255 - 2 ^ (k % 8) ELSE 255]
\* NumProbeBits positions from bit 0 to bit 63, the top bit.
ProbeBits == {(k * 63) \div (NumProbeBits - 1) : k \in 0..(NumProbeBits - 1)}
\* The uint64 values of SpecDistance.
ProbePool ==
    {Zero64, Ones64, hex_to_uint64(Hash6), hex_to_uint64(Hash12), hex_to_uint64(HashFar)}
        \cup {OneBit(k) : k \in ProbeBits} \cup {AllButBit(k) : k \in ProbeBits}
\* Stored aggregate scores.
ScorePool == {NULL, Some(0), Some(1)}

Unmarked == [duplicate_group_id |-> NULL, is_duplicate_lead |-> 0]

\* The group/lead columns before the first modelled run: never written, or
\* left by an earlier run that grouped the first two photos.
PriorMarks(size) ==
    { [p \in 1..size |-> Unmarked],
      [p \in 1..size |->
          IF p <= 2
          THEN [duplicate_group_id |-> Some(1), is_duplicate_lead |-> IF p = 1 THEN 1 ELSE 0]
          ELSE Unmarked] }

\* The calls of a run that has computed no distance yet.
NoCalls == [compared |-> <<>>, united |-> <<>>]

\* The locals of a caller of detect_duplicates before its call.
IdleLocals(id) ==
    [id |-> id, pc |-> "idle", max_distance |-> 0, paths |-> <<>>, aggregates |-> <<>>,
     hashes |-> <<>>, uf |-> UnionFind(0), i |-> 0, abs_i |-> 0, dup_groups |-> <<>>,
     conn |-> NULL, group_id |-> 0, g |-> 0, m |-> 0, outcome |-> "none",
     old_marks |-> NULL, after_prev |-> NULL, twin_conn |-> NULL,
     calls |-> NoCalls, summary |-> NULL]

\* The caller whose locals the variables pc .. summary hold: caller 1 unless
\* the two callers were switched.
ActiveRun == 3 - other.id

\* The threads that serve api_start_scan requests.
Requests == 1..NumRequests

\* viewer/scan/routes.py lines 14-22: the lock and the scan state at import.
ScanLockFree == 0
ScanStateInit ==
    [running |-> FALSE, process |-> NULL, output_lines |-> <<>>, started_at |-> NULL,
     directories |-> <<>>, exit_code |-> NULL]

\* A thread that serves no api_start_scan request yet.
NoRequest == [pc |-> "idle", directories |-> <<>>, proc |-> NULL, response |-> NULL]

InitStore(size, hash_pool, score_pool, prior_marks, settings, chunk_sizes) ==
    /\ \E h \in [1..size -> hash_pool], a \in [1..size -> score_pool], k \in prior_marks :
          photos = [p \in 1..size |->
                      [phash |-> h[p], aggregate |-> a[p],
                       duplicate_group_id |-> k[p].duplicate_group_id,
                       is_duplicate_lead |-> k[p].is_duplicate_lead]]
    /\ config \in settings
    /\ pc = "idle"
    /\ max_distance = 0
    /\ paths = <<>>
    /\ aggregates = <<>>
    /\ hashes = <<>>
    /\ uf = UnionFind(0)
    /\ i = 0
    /\ abs_i = 0
    /\ dup_groups = <<>>
    /\ conn = NULL
    /\ group_id = 0
    /\ g = 0
    /\ m = 0
    /\ outcome = "none"
    /\ old_marks = Marks(photos)
    /\ after_prev = NULL
    /\ twin = [p \in 1..size |->
                 [photos[p] EXCEPT !.duplicate_group_id = NULL, !.is_duplicate_lead = 0]]
    /\ twin_conn = NULL
    /\ observed = NULL
    /\ csize \in chunk_sizes
    /\ calls = NoCalls
    /\ summary = NULL
    /\ probe = NULL
    /\ last_commit = NULL
    /\ other = IdleLocals(2)
    /\ prev_run = NULL
    /\ uf_call = NULL
    /\ scan_lock = ScanLockFree
    /\ scan_state = ScanStateInit
    /\ request = [r \in Requests |-> NoRequest]
    /\ scans = <<>>

\* The stores of InitStore under the chunk size of the source.
InitWith(size, hash_pool, score_pool, prior_marks, settings) ==
    InitStore(size, hash_pool, score_pool, prior_marks, settings, {chunk_size})

\* A store of NumPhotos photos, hashed or not, scored or not, marked or not.
Init == InitWith(NumPhotos, HashPool, ScorePool, PriorMarks(NumPhotos), {NULL})

\* A store of 1 to NumWide photos, all hashed, none scored or marked.
InitWide ==
    \E size \in 1..NumWide :
        InitWith(size, WidePool, {NULL}, {[p \in 1..size |-> Unmarked]}, {Some(90)})

\* The store of Init with fewer scores.
InitObserved ==
    InitWith(NumPhotos, HashPool, {NULL, Some(1)}, PriorMarks(NumPhotos), {NULL})

\* ------------------------------------------------------- the compare loops

Min(a, b) == IF a < b THEN a ELSE b

RECURSIVE SeekRowSkipping(_, _, _)
\* Loops whose next chunk starts one row after the end of the chunk before.
SeekRowSkipping(size, c, a) ==
    IF c >= size THEN [done |-> TRUE, i |-> c, abs_i |-> a]
    ELSE IF a >= Min(c + csize, size) THEN SeekRowSkipping(size, c + csize + 1, c + csize + 1)
    ELSE IF a + 1 >= size THEN SeekRowSkipping(size, c, a + 1)
    ELSE [done |-> FALSE, i |-> c, abs_i |-> a]

RECURSIVE SeekRow(_, _, _)
\* The loops of lines 94-104 from row a of the chunk starting at c: the first
\* row with start_j < size, or the end of the loops.
SeekRow(size, c, a) ==
    IF c >= size THEN [done |-> TRUE, i |-> c, abs_i |-> a]
    ELSE IF a >= Min(c + csize, size) THEN SeekRow(size, c + csize, c + csize)
    ELSE IF a + 1 >= size THEN SeekRow(size, c, a + 1)
    ELSE [done |-> FALSE, i |-> c, abs_i |-> a]

\* distances < max_distance
IsMatchStrict(distance, limit) == distance < limit

\* distances <= max_distance
IsMatch(distance, limit) == distance <= limit

\* Distances to the rows of the current chunk only.
distancesInChunk(hs, a, size) ==
    [k \in 0..(Min(i + csize, size) - a - 2) |-> Distance(hs[a], hs[a + 1 + k])]

\* Lines 105-114 for row a: remaining is hs[start_j:], and distances gives,
\* by its offset in remaining, the distance of hs[a] to each of its elements.
distances(hs, a, size) ==
    [k \in 0..(size - a - 2) |-> Distance(hs[a], hs[a + 1 + k])]

RECURSIVE WhereLoop(_, _, _, _)
WhereLoop(ds, limit, k, n) ==
    IF k >= n THEN <<>>
    ELSE (IF IsMatch(ds[k], limit) THEN <<k>> ELSE <<>>) \o WhereLoop(ds, limit, k + 1, n)

\* np.where(distances <= max_distance)[0]: the offsets within the limit,
\* ascending.
match_indices(ds, limit) == WhereLoop(ds, limit, 0, Size(ds))

\* A loop over the matches that stops after the first of them.
UnionLoopFirst(r, a, start_j, mis, k) ==
    IF Len(mis) = 0 THEN r
    ELSE [uf     |-> union(r.uf, a, start_j + mis[1]),
          united |-> Append(r.united, <<a, start_j + mis[1]>>)]

RECURSIVE UnionLoop(_, _, _, _, _)
\* Lines 118-119: uf.union(abs_i, start_j + mi) for each mi of match_indices
\* from its k-th on; r holds the structure and the calls made so far.
UnionLoop(r, a, start_j, mis, k) ==
    IF k > Len(mis) THEN r
    ELSE UnionLoop([uf     |-> union(r.uf, a, start_j + mis[k]),
                    united |-> Append(r.united, <<a, start_j + mis[k]>>)],
                   a, start_j, mis, k + 1)

\* ------------------------------------------------------------ the actions

\* Lines 55-65: a call of detect_duplicates reads the setting.
Start ==
    /\ pc \in {"idle", "done", "raised"}
    /\ pc' = "load"
    /\ max_distance' = MaxDistance(SimilarityPct(config))
    /\ old_marks' = Marks(photos)
    /\ after_prev' = IF pc = "done" THEN Some(Marks(photos)) ELSE NULL
    /\ observed' = NULL
    /\ outcome' = "running"
    /\ paths' = <<>> /\ aggregates' = <<>> /\ hashes' = <<>> /\ uf' = UnionFind(0)
    /\ i' = 0 /\ abs_i' = 0 /\ dup_groups' = <<>> /\ conn' = NULL
    /\ group_id' = 0 /\ g' = 0 /\ m' = 0
    /\ calls' = NoCalls /\ summary' = NULL
    /\ UNCHANGED <<photos, config, twin, twin_conn, csize, probe, last_commit, outside>>

\* Lines 68-91: the SELECT, the early return, the conversion of the hashes.
Load ==
    /\ pc = "load"
    /\ LET rows == SelectRows(photos)
           size == Size(rows)
           first == SeekRow(size, 0, 0)
       IN  IF size = 0
           THEN /\ pc' = "done" /\ outcome' = "no_phash"
                /\ UNCHANGED <<paths, aggregates, hashes, uf, i, abs_i>>
           ELSE IF \E k \in DOMAIN rows : ~IsHexString(Val(photos[rows[k]].phash))
           THEN /\ pc' = "raised" /\ outcome' = "ValueError"
                /\ paths' = rows
                /\ aggregates' = [k \in DOMAIN rows |-> ScoreOrZero(photos[rows[k]].aggregate)]
                /\ UNCHANGED <<hashes, uf, i, abs_i>>
           ELSE IF \E k \in DOMAIN rows : ~FitsUint64(Val(photos[rows[k]].phash))
           THEN /\ pc' = "raised" /\ outcome' = "OverflowError"
                /\ paths' = rows
                /\ aggregates' = [k \in DOMAIN rows |-> ScoreOrZero(photos[rows[k]].aggregate)]
                /\ UNCHANGED <<hashes, uf, i, abs_i>>
           ELSE /\ paths' = rows
                /\ aggregates' = [k \in DOMAIN rows |-> ScoreOrZero(photos[rows[k]].aggregate)]
                /\ hashes' = [k \in DOMAIN rows |-> hex_to_uint64(Val(photos[rows[k]].phash))]
                /\ uf' = UnionFind(size)
                /\ i' = first.i /\ abs_i' = first.abs_i
                /\ pc' = IF first.done THEN "collect" ELSE "compare"
                /\ UNCHANGED outcome
    /\ UNCHANGED <<photos, config, max_distance, dup_groups, conn, group_id, g, m,
                   old_marks, after_prev, twin, twin_conn, observed,
                   csize, calls, summary, probe, last_commit, outside>>

\* Lines 100-119 for one row abs_i: its distances to the rows after it, the
\* unions of the matches, the advance of the loops.
Compare ==
    /\ pc = "compare"
    /\ LET size == Size(paths)
           start_j == abs_i + 1
           ds == distances(hashes, abs_i, size)
           mis == match_indices(ds, max_distance)
           r == UnionLoop([uf |-> uf, united |-> calls.united], abs_i, start_j, mis, 1)
           nxt == SeekRow(size, i, abs_i + 1)
       IN  /\ uf' = r.uf
           /\ calls' = [compared |-> calls.compared \o
                                       [k \in 1..Size(ds) |-> <<abs_i, start_j + k - 1>>],
                        united   |-> r.united]
           /\ i' = nxt.i /\ abs_i' = nxt.abs_i
           /\ pc' = IF nxt.done THEN "collect" ELSE "compare"
    /\ UNCHANGED <<photos, config, max_distance, paths, aggregates, hashes, dup_groups,
                   conn, group_id, g, m, outcome, old_marks, after_prev, twin, twin_conn,
                   observed, csize, summary, probe, last_commit, outside>>

\* Lines 121-132: the groups by root, those of 2+ members, the branch.
Collect ==
    /\ pc = "collect"
    /\ LET c == CollectLoop(uf, <<>>, 0, Size(paths))
       IN  /\ uf' = c.uf
           /\ dup_groups' = FilterGroups(c.groups)
           /\ pc' = IF Len(FilterGroups(c.groups)) = 0 THEN "nodup_clear" ELSE "clear"
    /\ UNCHANGED <<photos, config, max_distance, paths, aggregates, hashes, i, abs_i,
                   conn, group_id, g, m, outcome, old_marks, after_prev, twin, twin_conn,
                   observed,
                   csize, calls, summary, probe, last_commit, outside>>

\* Lines 135-137: the connection and the UPDATE of the no-duplicates branch.
NoDupClear ==
    /\ pc = "nodup_clear"
    /\ LET c == apply_pragmas(Connect)
           updated == ClearAll(ViewOf(c, photos))
       IN  /\ photos' = StoredAfter(c, photos, updated)
           /\ conn' = Some(ConnAfter(c, updated))
           /\ twin' = StoredAfter(c, twin, ClearAll(twin))
           /\ twin_conn' = Some(ConnAfter(c, ClearAll(twin)))
    /\ pc' = "nodup_commit"
    /\ UNCHANGED <<config, max_distance, paths, aggregates, hashes, uf, i, abs_i,
                   dup_groups, group_id, g, m, outcome, old_marks, after_prev, observed,
                   csize, calls, summary, probe, last_commit, outside>>

\* Lines 138-139: conn.commit() and the return.
NoDupCommit ==
    /\ pc = "nodup_commit"
    /\ photos' = ViewOf(Val(conn), photos)
    /\ twin' = ViewOf(Val(twin_conn), twin)
    /\ conn' = NULL
    /\ twin_conn' = NULL
    /\ pc' = "done" /\ outcome' = "no_duplicates"
    /\ last_commit' = Some(ActiveRun)
    /\ UNCHANGED <<config, max_distance, paths, aggregates, hashes, uf, i, abs_i,
                   dup_groups, group_id, g, m, old_marks, after_prev, observed,
                   csize, calls, summary, probe, outside>>

\* Numbering from 0.
FirstGroupIdZero(table) == 0

MaxOf(S) == IF S = {} THEN 0 ELSE LET x == CHOOSE y \in S : \A z \in S : z <= y IN x

\* Numbering that continues after the ids already stored.
FirstGroupIdAfterStored(table) ==
    1 + MaxOf({Val(table[p].duplicate_group_id) :
                  p \in {q \in DOMAIN table : ~IsNull(table[q].duplicate_group_id)}})

\* The id the first group written gets (line 150), whatever the table holds.
FirstGroupId(table) == 1

\* Lines 146-150: the connection, the clearing UPDATE, group_id = 1.
Clear ==
    /\ pc = "clear"
    /\ LET c == apply_pragmas(Connect)
           updated == ClearAll(ViewOf(c, photos))
       IN  /\ photos' = StoredAfter(c, photos, updated)
           /\ conn' = Some(ConnAfter(c, updated))
           /\ twin' = StoredAfter(c, twin, ClearAll(twin))
           /\ twin_conn' = Some(ConnAfter(c, ClearAll(twin)))
    /\ group_id' = FirstGroupId(photos)
    /\ g' = 1 /\ m' = 1
    /\ pc' = "write"
    /\ UNCHANGED <<config, max_distance, paths, aggregates, hashes, uf, i, abs_i,
                   dup_groups, outcome, old_marks, after_prev, observed,
                   csize, calls, summary, probe, last_commit, outside>>

\* A member loop that never moves on to the next member.
WriteNoAdvance ==
    /\ pc = "write"
    /\ LET members == SortedItems(dup_groups)[g].members
           idx == members[m]
           is_lead == IF idx = BestIdx(members, aggregates) THEN 1 ELSE 0
           c == Val(conn)
           tc == Val(twin_conn)
           updated == UpdateMarks(ViewOf(c, photos), group_id, is_lead, paths[idx])
           twin_updated == UpdateMarks(ViewOf(tc, twin), group_id, is_lead, paths[idx])
       IN  /\ photos' = StoredAfter(c, photos, updated)
           /\ conn' = Some(ConnAfter(c, updated))
           /\ twin' = StoredAfter(tc, twin, twin_updated)
           /\ twin_conn' = Some(ConnAfter(tc, twin_updated))
    /\ UNCHANGED <<config, pc, max_distance, paths, aggregates, hashes, uf, i, abs_i,
                   dup_groups, group_id, g, m, outcome, old_marks, after_prev, observed,
                   csize, calls, summary, probe, last_commit, outside>>

\* Lines 151-162: one UPDATE of the nested loops over the sorted groups and
\* their members.
Write ==
    /\ pc = "write"
    /\ LET members == SortedItems(dup_groups)[g].members
           best_idx == BestIdx(members, aggregates)
           idx == members[m]
           is_lead == IF idx = best_idx THEN 1 ELSE 0
           last_member == m = Len(members)
           last_group == g = Len(dup_groups)
           c == Val(conn)
           tc == Val(twin_conn)
           updated == UpdateMarks(ViewOf(c, photos), group_id, is_lead, paths[idx])
           twin_updated == UpdateMarks(ViewOf(tc, twin), group_id, is_lead, paths[idx])
       IN  /\ photos' = StoredAfter(c, photos, updated)
           /\ conn' = Some(ConnAfter(c, updated))
           /\ twin' = StoredAfter(tc, twin, twin_updated)
           /\ twin_conn' = Some(ConnAfter(tc, twin_updated))
           /\ m' = IF last_member THEN 1 ELSE m + 1
           /\ g' = IF last_member THEN g + 1 ELSE g
           /\ group_id' = IF last_member THEN group_id + 1 ELSE group_id
           /\ pc' = IF last_member /\ last_group THEN "commit" ELSE "write"
    /\ UNCHANGED <<config, max_distance, paths, aggregates, hashes, uf, i, abs_i,
                   dup_groups, outcome, old_marks, after_prev, observed,
                   csize, calls, summary, probe, last_commit, outside>>

RECURSIVE SumLen(_, _)
\* sum(len(m) for m in dup_groups.values()), from the k-th item on.
SumLen(items, k) ==
    IF k > Len(items) THEN 0 ELSE Len(items[k].members) + SumLen(items, k + 1)

\* A hidden count that includes the leads.
HiddenWithLeads(total_dups, groups) == total_dups

\* hidden = total_dups - len(dup_groups)
Hidden(total_dups, groups) == total_dups - groups

\* The counts of the line printed at lines 168-169.
SummaryCounts(items) ==
    [groups |-> Len(items),
     total  |-> SumLen(items, 1),
     hidden |-> Hidden(SumLen(items, 1), Len(items))]

\* Line 164: conn.commit(); lines 166-169 print the summary and return.
Commit ==
    /\ pc = "commit"
    /\ photos' = ViewOf(Val(conn), photos)
    /\ twin' = ViewOf(Val(twin_conn), twin)
    /\ conn' = NULL
    /\ twin_conn' = NULL
    /\ summary' = Some(SummaryCounts(dup_groups))
    /\ pc' = "done" /\ outcome' = "marked"
    /\ last_commit' = Some(ActiveRun)
    /\ UNCHANGED <<config, max_distance, paths, aggregates, hashes, uf, i, abs_i,
                   dup_groups, group_id, g, m, old_marks, after_prev, observed,
                   csize, calls, probe, outside>>

\* Leaving the with block on an exception with the pending writes committed.
RollbackKeepsPending(c, table) == ViewOf(c, table)

\* Leaving the with block of line 146 on an exception: Connection.__exit__
\* rolls the open transaction back, the committed table stays.
Rollback(c, table) == table

\* Lines 157-161 when conn.execute raises (the store refuses the write): the
\* with block is left and the exception reaches the caller.
WriteFails ==
    /\ pc = "write"
    /\ photos' = Rollback(Val(conn), photos)
    /\ twin' = Rollback(Val(twin_conn), twin)
    /\ conn' = NULL
    /\ twin_conn' = NULL
    /\ pc' = "raised" /\ outcome' = "sqlite3.Error"
    /\ UNCHANGED <<config, max_distance, paths, aggregates, hashes, uf, i, abs_i,
                   dup_groups, group_id, g, m, old_marks, after_prev, observed,
                   csize, calls, summary, probe, last_commit, outside>>

\* Another connection reads the group/lead columns while a run is under way
\* or has ended: it sees the committed table.
Observe ==
    /\ pc # "idle"
    /\ observed' = Some([marks |-> Marks(photos), at |-> pc])
    /\ UNCHANGED <<photos, config, pc, max_distance, paths, aggregates, hashes, uf, i,
                   abs_i, dup_groups, conn, group_id, g, m, outcome, old_marks,
                   after_prev, twin, twin_conn,
                   csize, calls, summary, probe, last_commit, outside>>

Next ==
    \/ Start
    \/ Load
    \/ Compare
    \/ Collect
    \/ NoDupClear
    \/ NoDupCommit
    \/ Clear
    \/ Write
    \/ Commit

NextObserved == Next \/ Observe

\* The first call of detect_duplicates on a store.
FirstStart == pc = "idle" /\ Start

NextWide ==
    \/ FirstStart
    \/ Load
    \/ Compare
    \/ Collect
    \/ NoDupClear
    \/ NoDupCommit
    \/ Clear
    \/ Write
    \/ Commit

\* Runs of detect_duplicates, one after the other, on a small store.
Spec == Init /\ [][Next]_vars

\* One run of detect_duplicates on stores of up to NumWide hashed photos.
SpecWide == InitWide /\ [][NextWide]_vars

\* The runs of Spec with a concurrent reader of the store.
SpecObserved == InitObserved /\ [][NextObserved]_vars

\* A store that may hold strings that are no pHash.
InitErrors ==
    InitWith(NumPhotos, ErrPool, {NULL, Some(1)}, PriorMarks(NumPhotos), {NULL})

NextErrors == Next \/ WriteFails

\* The runs of Spec on such a store, with writes that may fail.
SpecErrors == InitErrors /\ [][NextErrors]_vars

\* A small store under every setting of PctPool.
InitConfig ==
    InitWith(NumSmall, {NULL, Some(Hash0), Some(Hash6)}, {NULL}, PriorMarks(NumSmall), PctPool)

\* One run of detect_duplicates under each setting.
SpecConfig == InitConfig /\ [][NextWide]_vars

\* A store under the two ends of the percent range, with a pHash stored in
\* both cases of its letters.
InitBoundary ==
    InitWith(NumPhotos, {NULL, Some(Hash0), Some(Hash12), Some(Hash12Upper), Some(HashFar)},
             {NULL}, {[p \in 1..NumPhotos |-> Unmarked]}, {Some(0), Some(100)})

\* One run of detect_duplicates under 0 and under 100 percent.
SpecBoundary == InitBoundary /\ [][NextWide]_vars

\* Stores of 1 to NumChunked hashed photos, compared in chunks of 1 to
\* NumChunked rows or of chunk_size rows.
InitChunks ==
    \E size \in 1..NumChunked :
        InitStore(size, {Some(Hash0), Some(Hash6), Some(Hash12)}, {NULL},
                  {[p \in 1..size |-> Unmarked]},
                  {NULL}, (1..NumChunked) \cup {chunk_size})

\* One run of detect_duplicates under each chunk size.
SpecChunks == InitChunks /\ [][NextWide]_vars

\* The setting similarity_threshold_percent is edited after a run that has
\* returned; the next call of detect_duplicates is the first under the new
\* setting. The setting and the marks of the run before are kept.
Retune ==
    /\ pc = "done"
    /\ IsNull(prev_run)
    /\ \E setting \in {Some(0), Some(80), Some(90), Some(100)} : config' = setting
    /\ prev_run' = Some([pct |-> SimilarityPct(config), outcome |-> outcome,
                         marks |-> Marks(photos)])
    /\ pc' = "idle"
    /\ outcome' = "none"
    /\ UNCHANGED <<photos, max_distance, paths, aggregates, hashes, uf, i,
                   abs_i, dup_groups, conn, group_id, g, m, old_marks,
                   after_prev, twin, twin_conn, observed, csize, calls, summary, probe,
                   last_commit, other, uf_call, scan_lock, scan_state, request, scans>>

\* A store without marks under four settings.
InitMonotone ==
    InitWith(NumPhotos, HashPool, {NULL}, {[p \in 1..NumPhotos |-> Unmarked]},
             {Some(0), Some(80), Some(90), Some(100)})

NextMonotone == NextWide \/ Retune

\* A run under one setting, then a run on the same photos under another.
SpecMonotone == InitMonotone /\ [][NextMonotone]_vars

\* The locals of the caller that is running.
Locals ==
    [id |-> ActiveRun, pc |-> pc, max_distance |-> max_distance, paths |-> paths,
     aggregates |-> aggregates, hashes |-> hashes, uf |-> uf, i |-> i, abs_i |-> abs_i,
     dup_groups |-> dup_groups, conn |-> conn, group_id |-> group_id, g |-> g, m |-> m,
     outcome |-> outcome, old_marks |-> old_marks, after_prev |-> after_prev,
     twin_conn |-> twin_conn, calls |-> calls, summary |-> summary]

\* The statements of detect_duplicates that read or write the store.
StoreStatements == {"load", "nodup_clear", "nodup_commit", "clear", "write", "commit"}

\* The scheduler lets the other caller of detect_duplicates run: before a
\* statement on the store, before the call or after it (the statements in
\* between touch locals only).
Yield ==
    /\ pc \in StoreStatements \cup {"idle", "done", "raised"}
    /\ other' = Locals
    /\ pc' = other.pc
    /\ max_distance' = other.max_distance
    /\ paths' = other.paths
    /\ aggregates' = other.aggregates
    /\ hashes' = other.hashes
    /\ uf' = other.uf
    /\ i' = other.i
    /\ abs_i' = other.abs_i
    /\ dup_groups' = other.dup_groups
    /\ conn' = other.conn
    /\ group_id' = other.group_id
    /\ g' = other.g
    /\ m' = other.m
    /\ outcome' = other.outcome
    /\ old_marks' = other.old_marks
    /\ after_prev' = other.after_prev
    /\ twin_conn' = other.twin_conn
    /\ calls' = other.calls
    /\ summary' = other.summary
    /\ UNCHANGED <<photos, config, twin, observed, csize, probe, last_commit, prev_run,
                   uf_call, scan_lock, scan_state, request, scans>>

\* A connection holds the write lock of the database file from the first
\* UPDATE of its transaction until the transaction ends.
HoldsWriteLock(c) == ~IsNull(c) /\ ~Val(c).autocommit

\* The first UPDATE of a transaction (lines 137, 148) gets the write lock:
\* no other connection holds it.
WriteLockFree == ~HoldsWriteLock(other.conn)

\* Lines 137 and 148 while the other caller's transaction is open: SQLite
\* waits for the lock, then conn.execute raises 'database is locked'.
Busy ==
    /\ pc \in {"nodup_clear", "clear"}
    /\ ~WriteLockFree
    /\ pc' = "raised"
    /\ outcome' = "sqlite3.OperationalError"
    /\ UNCHANGED <<photos, config, max_distance, paths, aggregates, hashes, uf, i, abs_i,
                   dup_groups, conn, group_id, g, m, old_marks, after_prev, twin,
                   twin_conn, observed, csize, calls, summary, probe, last_commit, outside>>

\* Another program stores a new aggregate score for a photo, between the
\* transactions of the runs.
Rescore ==
    /\ ~HoldsWriteLock(conn)
    /\ ~HoldsWriteLock(other.conn)
    /\ \E p \in DOMAIN photos, score \in {Some(0), Some(1)} :
          /\ photos[p].aggregate # score
          /\ photos' = [photos EXCEPT ![p].aggregate = score]
          /\ twin' = [twin EXCEPT ![p].aggregate = score]
    /\ UNCHANGED <<config, pc, max_distance, paths, aggregates, hashes, uf, i, abs_i,
                   dup_groups, conn, group_id, g, m, outcome, old_marks, after_prev,
                   twin_conn, observed, csize, calls, summary, probe, last_commit, outside>>

\* A small store, marked or not.
InitConcurrent ==
    InitWith(NumSmall, {NULL, Some(Hash0), Some(Hash6)}, {Some(0), Some(1)},
             PriorMarks(NumSmall), {NULL})

NextConcurrent ==
    \/ FirstStart
    \/ Load
    \/ Compare
    \/ Collect
    \/ WriteLockFree /\ NoDupClear
    \/ NoDupCommit
    \/ WriteLockFree /\ Clear
    \/ Write
    \/ Commit
    \/ Busy
    \/ Yield
    \/ Rescore

\* Two callers of detect_duplicates, one call each, on the same store, their
\* statements on the store interleaved, while scores may change.
SpecConcurrent == InitConcurrent /\ [][NextConcurrent]_vars

\* A small store that may hold a string that is no pHash.
InitLive ==
    InitWith(NumSmall, {NULL, Some(Hash0), Some(Hash6), Some(HashBad)}, {NULL},
             PriorMarks(NumSmall), {NULL})

\* The interpreter keeps executing the call: a statement that can run does
\* run. Weak fairness of each statement; for Compare, which can run exactly
\* when pc = "compare" and then changes abs_i or pc, WF_vars(Compare) is
\* written with that enabling condition in the place of ENABLED.
RunsOn ==
    /\ WF_vars(FirstStart)
    /\ WF_vars(Load)
    /\ ([]<>(pc # "compare") \/ []<><<Compare>>_vars)
    /\ WF_vars(Collect)
    /\ WF_vars(NoDupClear)
    /\ WF_vars(NoDupCommit)
    /\ WF_vars(Clear)
    /\ WF_vars(Write)
    /\ WF_vars(Commit)

\* One call of detect_duplicates, run to its end.
SpecLive == InitLive /\ [][NextWide]_vars /\ RunsOn

\* Lines 106-114 for one element of remaining: the distance of two uint64
\* values.
Measure ==
    /\ \E x \in ProbePool, y \in ProbePool :
          probe' = Some([x |-> x, y |-> y, distance |-> Distance(x, y)])
    /\ UNCHANGED <<photos, config, pc, max_distance, paths, aggregates, hashes, uf, i,
                   abs_i, dup_groups, conn, group_id, g, m, outcome, old_marks,
                   after_prev, twin, twin_conn, observed, csize, calls, summary,
                   last_commit, outside>>

InitDistance ==
    InitWith(1, {NULL}, {NULL}, {[p \in 1..1 |-> Unmarked]}, {NULL})

NextDistance == Measure

\* The distance of lines 106-114 on pairs of uint64 values.
SpecDistance == InitDistance /\ [][NextDistance]_vars

\* ------------------------------------------------ _UnionFind on its own

\* Everything but uf and the history of the calls on it.
beside_uf == <<photos, config, pc, max_distance, paths, aggregates, hashes, i,
               abs_i, dup_groups, conn, group_id, g, m, outcome, old_marks,
               after_prev, twin, twin_conn, observed, csize, calls, summary, probe,
               last_commit, other, prev_run, scan_lock, scan_state, request, scans>>

\* A call of a method of _UnionFind, with the structure before the call and
\* the value returned (None but for find).
UfCall(op, a, b, before, result) ==
    Some([op |-> op, a |-> a, b |-> b, before |-> before, result |-> result])

\* _UnionFind(n), lines 18-20
UfNew ==
    /\ IsNull(uf_call)
    /\ \E n \in 1..NumElements :
          /\ uf' = UnionFind(n)
          /\ uf_call' = UfCall("init", n, n, uf, NULL)
    /\ UNCHANGED beside_uf

\* uf.find(x), lines 22-26
UfFind ==
    /\ ~IsNull(uf_call)
    /\ \E x \in DOMAIN uf.parent :
          /\ uf' = find(uf, x).uf
          /\ uf_call' = UfCall("find", x, x, uf, Some(find(uf, x).root))
    /\ UNCHANGED beside_uf

\* uf.union(a, b), lines 28-36
UfUnion ==
    /\ ~IsNull(uf_call)
    /\ \E a \in DOMAIN uf.parent, b \in DOMAIN uf.parent :
          /\ uf' = union(uf, a, b)
          /\ uf_call' = UfCall("union", a, b, uf, NULL)
    /\ UNCHANGED beside_uf

NextUnionFind == UfNew \/ UfFind \/ UfUnion

\* Any sequence of find and union calls on a _UnionFind of 1 to NumElements
\* elements.
SpecUnionFind == InitDistance /\ [][NextUnionFind]_vars

\* ------------------------------------------- viewer/scan: api_start_scan

\* Everything but the state of viewer/scan/routes.py.
detection == <<photos, config, pc, max_distance, paths, aggregates, hashes, uf, i,
               abs_i, dup_groups, conn, group_id, g, m, outcome, old_marks,
               after_prev, twin, twin_conn, observed, csize, calls, summary, probe,
               last_commit, other, prev_run, uf_call>>

\* get_all_scan_directories(): the configured directories.
Configured == {"photos"}

\* The body of a request, as request.get_json() takes it: NULL is a body
\* get_json() raises on, Some(list) one whose 'directories' is list (absent
\* counts as empty).
Bodies == {NULL, Some(<<>>), Some(<<"photos">>), Some(<<"elsewhere">>),
           Some(<<"photos", "elsewhere">>)}

\* An acquire whose result is ignored: the caller goes on, lock taken or not.
acquireAnyway(lock, r) == [ok |-> TRUE, lock |-> r]

\* _scan_lock.acquire(blocking=False) by thread r: whether the lock was got,
\* and the lock after the call.
acquire(lock, r) ==
    IF lock = ScanLockFree THEN [ok |-> TRUE, lock |-> r] ELSE [ok |-> FALSE, lock |-> lock]

\* _scan_lock.release()
release(lock) == ScanLockFree

\* The request of a thread ends with an HTTP status, its locals are gone.
Returned(status) == [NoRequest EXCEPT !.pc = "returned", !.response = Some(status)]

\* An exception inside the try block of lines 51-100 reaches line 102.
Raised(req) == [req EXCEPT !.pc = "except"]

\* Lines 45-46: a POST /api/scan/start reaches thread r, the feature being
\* enabled or not.
Call(r) ==
    /\ request[r].pc \in {"idle", "returned"}
    /\ Len(scans) < NumScans
    /\ \E enabled \in BOOLEAN :
          request' = [request EXCEPT ![r] =
                        IF enabled THEN [NoRequest EXCEPT !.pc = "acquire"] ELSE Returned(403)]
    /\ UNCHANGED <<scan_lock, scan_state, scans, detection>>

\* Lines 48-49
Acquire(r) ==
    /\ request[r].pc = "acquire"
    /\ LET a == acquire(scan_lock, r)
       IN  /\ scan_lock' = a.lock
           /\ request' = [request EXCEPT ![r] =
                            IF a.ok THEN [request[r] EXCEPT !.pc = "check"] ELSE Returned(409)]
    /\ UNCHANGED <<scan_state, scans, detection>>

\* Lines 52-54
CheckRunning(r) ==
    /\ request[r].pc = "check"
    /\ IF scan_state.running
       THEN /\ scan_lock' = release(scan_lock)
            /\ request' = [request EXCEPT ![r] = Returned(409)]
       ELSE /\ request' = [request EXCEPT ![r] = [request[r] EXCEPT !.pc = "validate"]]
            /\ UNCHANGED scan_lock
    /\ UNCHANGED <<scan_state, scans, detection>>

\* Lines 56-68: the body, the directories, their validation.
Validate(r) ==
    /\ request[r].pc = "validate"
    /\ \E body \in Bodies :
          LET directories == Val(body)
          IN  IF IsNull(body)
              THEN /\ request' = [request EXCEPT ![r] = Raised(request[r])]
                   /\ UNCHANGED scan_lock
              ELSE IF \E k \in 1..Len(directories) : directories[k] \notin Configured
              THEN /\ scan_lock' = release(scan_lock)
                   /\ request' = [request EXCEPT ![r] = Returned(400)]
              ELSE IF Len(directories) = 0
              THEN /\ scan_lock' = release(scan_lock)
                   /\ request' = [request EXCEPT ![r] = Returned(400)]
              ELSE /\ request' = [request EXCEPT ![r] =
                                    [request[r] EXCEPT !.pc = "popen",
                                                       !.directories = directories]]
                   /\ UNCHANGED scan_lock
    /\ UNCHANGED <<scan_state, scans, detection>>

\* Lines 71-80: subprocess.Popen starts the scan, or raises.
Popen(r) ==
    /\ request[r].pc = "popen"
    /\ \E started \in BOOLEAN :
          IF started
          THEN /\ scans' = Append(scans,
                              [alive |-> TRUE, returncode |-> NULL, reader |-> "none"])
               /\ request' = [request EXCEPT ![r] =
                                [request[r] EXCEPT !.pc = "update",
                                                   !.proc = Some(Len(scans) + 1)]]
          ELSE /\ request' = [request EXCEPT ![r] = Raised(request[r])]
               /\ UNCHANGED scans
    /\ UNCHANGED <<scan_lock, scan_state, detection>>

\* Lines 83-88; started_at takes the clock reading, one per scan.
Update(r) ==
    /\ request[r].pc = "update"
    /\ scan_state' = [running |-> TRUE, process |-> request[r].proc, output_lines |-> <<>>,
                      started_at |-> request[r].proc,
                      directories |-> request[r].directories, exit_code |-> NULL]
    /\ request' = [request EXCEPT ![r] = [request[r] EXCEPT !.pc = "thread"]]
    /\ UNCHANGED <<scan_lock, scans, detection>>

\* Lines 91-92: the reader thread starts, or Thread.start() raises.
StartReader(r) ==
    /\ request[r].pc = "thread"
    /\ \E started \in BOOLEAN :
          IF started
          THEN /\ scans' = [scans EXCEPT ![Val(request[r].proc)].reader = "reading"]
               /\ request' = [request EXCEPT ![r] = [request[r] EXCEPT !.pc = "release"]]
          ELSE /\ request' = [request EXCEPT ![r] = Raised(request[r])]
               /\ UNCHANGED scans
    /\ UNCHANGED <<scan_lock, scan_state, detection>>

\* Lines 94-100
Release(r) ==
    /\ request[r].pc = "release"
    /\ scan_lock' = release(scan_lock)
    /\ request' = [request EXCEPT ![r] = Returned(200)]
    /\ UNCHANGED <<scan_state, scans, detection>>

\* Lines 102-105
Except(r) ==
    /\ request[r].pc = "except"
    /\ scan_state' = [scan_state EXCEPT !.running = FALSE]
    /\ scan_lock' = release(scan_lock)
    /\ request' = [request EXCEPT ![r] = Returned(500)]
    /\ UNCHANGED <<scans, detection>>

\* The last output_cap elements of a list: lines[-500:]
LastLines(lines) ==
    IF Len(lines) > output_cap THEN SubSeq(lines, Len(lines) - output_cap + 1, Len(lines))
    ELSE lines

\* Lines 27-31: the reader thread of scan s takes a line the subprocess
\* printed (the line is identified by its scan), up to NumLines lines kept.
ReadLine(s) ==
    /\ scans[s].reader = "reading"
    /\ scans[s].alive
    /\ Len(scan_state.output_lines) < NumLines
    /\ scan_state' = [scan_state EXCEPT !.output_lines =
                        LastLines(Append(scan_state.output_lines, s))]
    /\ UNCHANGED <<scan_lock, request, scans, detection>>

\* The subprocess of scan s ends, with some return code.
ProcExit(s) ==
    /\ scans[s].alive
    /\ \E code \in {0, 1} :
          scans' = [scans EXCEPT ![s].alive = FALSE, ![s].returncode = Some(code)]
    /\ UNCHANGED <<scan_lock, scan_state, request, detection>>

\* Lines 27 and 32: the output ends with the subprocess, proc.wait() returns.
ReaderWait(s) ==
    /\ scans[s].reader = "reading"
    /\ ~scans[s].alive
    /\ scans' = [scans EXCEPT ![s].reader = "waited"]
    /\ UNCHANGED <<scan_lock, scan_state, request, detection>>

\* Line 33
StoreExitCode(s) ==
    /\ scans[s].reader = "waited"
    /\ scan_state' = [scan_state EXCEPT !.exit_code = scans[s].returncode]
    /\ scans' = [scans EXCEPT ![s].reader = "stored"]
    /\ UNCHANGED <<scan_lock, request, detection>>

\* Line 34
ClearRunning(s) ==
    /\ scans[s].reader = "stored"
    /\ scan_state' = [scan_state EXCEPT !.running = FALSE]
    /\ scans' = [scans EXCEPT ![s].reader = "done"]
    /\ UNCHANGED <<scan_lock, request, detection>>

NextScan ==
    \/ \E r \in Requests : Call(r)
    \/ \E r \in Requests : Acquire(r)
    \/ \E r \in Requests : CheckRunning(r)
    \/ \E r \in Requests : Validate(r)
    \/ \E r \in Requests : Popen(r)
    \/ \E r \in Requests : Update(r)
    \/ \E r \in Requests : StartReader(r)
    \/ \E r \in Requests : Release(r)
    \/ \E r \in Requests : Except(r)
    \/ \E s \in DOMAIN scans : ReadLine(s)
    \/ \E s \in DOMAIN scans : ProcExit(s)
    \/ \E s \in DOMAIN scans : ReaderWait(s)
    \/ \E s \in DOMAIN scans : StoreExitCode(s)
    \/ \E s \in DOMAIN scans : ClearRunning(s)

\* Concurrent api_start_scan requests, the subprocesses and their reader
\* threads.
SpecScan == InitDistance /\ [][NextScan]_vars

\* ------------------------------------------------- the stored grouping

\* The photos with a pHash, and the uint64 of a photo's pHash.
Hashed == {p \in DOMAIN photos : ~IsNull(photos[p].phash)}
HashOf(p) == hex_to_uint64(Val(photos[p].phash))
PhotoDistance(p, q) == Distance(HashOf(p), HashOf(q))

\* Two distinct hashed photos within the run's max_distance.
Matching(p, q) == p # q /\ PhotoDistance(p, q) <= max_distance

\* The pairs of stored pHash strings within the run's max_distance.
NearStrings ==
    LET strs == {Val(photos[p].phash) : p \in Hashed}
    IN  UNION {IF Distance(hex_to_uint64(x[1]), hex_to_uint64(x[2])) <= max_distance
               THEN {x} ELSE {} : x \in strs \X strs}

\* The match graph: the ordered pairs of matching photos.
MatchEdges ==
    LET near == NearStrings
    IN  UNION {IF e[1] # e[2] /\ <<Val(photos[e[1]].phash), Val(photos[e[2]].phash)>> \in near
               THEN {e} ELSE {} : e \in Hashed \X Hashed}

RECURSIVE Grow(_, _)
Grow(edges, S) ==
    LET T == S \cup {e[2] : e \in {d \in edges : d[1] \in S}}
    IN  IF T = S THEN S ELSE Grow(edges, T)

\* The connected component of a hashed photo in the match graph, and the
\* components of all hashed photos.
Component(p) == Grow(MatchEdges, {p})
Components == LET edges == MatchEdges IN {Grow(edges, {p}) : p \in Hashed}
Linked(p, q) == q \in Component(p)

GroupIdOf(p) == photos[p].duplicate_group_id
IsLead(p) == photos[p].is_duplicate_lead = 1
Grouped == {p \in DOMAIN photos : ~IsNull(GroupIdOf(p))}
GroupOf(p) == {q \in Grouped : GroupIdOf(q) = GroupIdOf(p)}

\* A photo's quality, an absent one counting as 0.
Quality(p) == IF photos[p].aggregate = NULL THEN 0 ELSE photos[p].aggregate[1]

\* The run has gone through its persist phase and returned.
Persisted == pc = "done" /\ outcome \in {"marked", "no_duplicates"}

\* --------------------------------------------------------------- claims

\* C1. Transitivity: after a run that went through the persist phase, hashed
\* photos A, B, C with distance(A,B) <= max_distance and distance(B,C) <=
\* max_distance (A, B and B, C distinct photos) carry one and the same
\* non-null group id, whatever distance(A,C) is.
C1_Transitivity ==
    Persisted =>
        LET edges == MatchEdges
        IN  \A a \in Hashed, b \in Hashed, c \in Hashed :
                (<<a, b>> \in edges /\ <<b, c>> \in edges) =>
                    /\ ~IsNull(GroupIdOf(a))
                    /\ GroupIdOf(a) = GroupIdOf(b)
                    /\ GroupIdOf(b) = GroupIdOf(c)

\* C1 witness: a persisted run over A, B, C where A-B and B-C match and A-C
\* is farther than max_distance.
C1_Witness ==
    /\ Persisted
    /\ \E a \in Hashed, b \in Hashed, c \in Hashed :
          /\ Matching(a, b) /\ Matching(b, c)
          /\ a # c /\ PhotoDistance(a, c) > max_distance

\* C2. After a successful run two distinct hashed photos carry the same
\* non-null group id exactly when a chain of pairs at distance <=
\* max_distance links them.
C2_Components ==
    Persisted =>
        LET comps == Components
        IN  \A p \in Hashed, q \in Hashed :
                p # q =>
                    ((~IsNull(GroupIdOf(p)) /\ GroupIdOf(p) = GroupIdOf(q))
                        <=> (\E c \in comps : p \in c /\ q \in c))

\* C2 witness: a persisted run with two photos linked only through a third,
\* one link being at distance exactly max_distance.
C2_Witness ==
    /\ Persisted
    /\ \E p \in Hashed, q \in Hashed, r \in Hashed :
          /\ p # q /\ Linked(p, q) /\ ~Matching(p, q)
          /\ PhotoDistance(p, r) = max_distance

\* C3. Group exclusivity: after a run that went through the persist phase a
\* photo outside every component of 2+ photos (alone in its component, or
\* without a hash) has no group id and is no lead, and a group id that is
\* stored is stored on at least 2 photos.
C3_Exclusive ==
    Persisted =>
        LET comps == Components
        IN  /\ \A p \in DOMAIN photos :
                  (p \notin Hashed \/ \E c \in comps : p \in c /\ Cardinality(c) < 2) =>
                      (IsNull(GroupIdOf(p)) /\ photos[p].is_duplicate_lead = 0)
            /\ \A p \in Grouped : Cardinality(GroupOf(p)) >= 2

\* C3 witness: a run that wrote a group, over a store where a photo without
\* a hash carried a group id and the lead flag before the run.
C3_Witness ==
    /\ Persisted /\ outcome = "marked"
    /\ \E p \in DOMAIN photos :
          /\ p \notin Hashed
          /\ ~IsNull(old_marks[p].duplicate_group_id)
          /\ old_marks[p].is_duplicate_lead = 1

\* C4. Lead uniqueness: after a successful run every group has exactly one
\* lead; no member has a greater quality (an absent one counting as 0), and
\* no member of the same quality has a smaller identifier.
C4_Lead ==
    Persisted =>
        \A p \in Grouped :
            /\ Cardinality({l \in GroupOf(p) : IsLead(l)}) = 1
            /\ \A l \in GroupOf(p) :
                  IsLead(l) =>
                      \A q \in GroupOf(p) :
                          /\ Quality(l) >= Quality(q)
                          /\ (Quality(q) = Quality(l) => l <= q)

\* C4 witness: a group whose lead has no stored quality and a later member
\* the stored quality 0: a tie at 0.
C4_Witness ==
    /\ Persisted
    /\ \E l \in Grouped, q \in Grouped :
          /\ IsLead(l) /\ q \in GroupOf(l) /\ l < q
          /\ IsNull(photos[l].aggregate) /\ photos[q].aggregate = Some(0)

\* The smallest identifier of the group of p.
MinIdOf(p) == CHOOSE q \in GroupOf(p) : \A r \in GroupOf(p) : q <= r

\* The identifier of the union-find root of the set of p, as the run left uf.
RootIdOf(p) ==
    LET idx == CHOOSE k \in DOMAIN paths : paths[k] = p
    IN  paths[FindLoop(uf.parent, idx).root]

DuplicateComponents == {c \in Components : Cardinality(c) >= 2}

\* C6. After a successful run that found k >= 1 groups the group ids stored
\* are exactly 1..k, and photos of one id are in one component.
C6_Sequential ==
    (Persisted /\ outcome = "marked") =>
        LET comps == DuplicateComponents
            k == Cardinality(comps)
        IN  /\ k >= 1
            /\ {Val(GroupIdOf(p)) : p \in Grouped} = 1..k
            /\ \A p \in Grouped, q \in Grouped :
                  GroupIdOf(p) = GroupIdOf(q) => \E c \in comps : p \in c /\ q \in c

\* C6 witness: a run that wrote three groups.
C6_Witness ==
    /\ Persisted /\ outcome = "marked"
    /\ Cardinality(DuplicateComponents) = 3
    /\ \E p \in Grouped : GroupIdOf(p) = Some(3)

\* C7. Idempotence: when a run ends right after another run ended, on the
\* same photos and setting, the marks stored are those the first run left.
C7_Idempotent ==
    (pc = "done" /\ ~IsNull(after_prev)) => Marks(photos) = Val(after_prev)

\* C7 witness: the second of two runs in a row has ended, having written a
\* group whose lead is not its first member.
C7_Witness ==
    /\ pc = "done" /\ outcome = "marked" /\ ~IsNull(after_prev)
    /\ \E p \in Grouped : IsLead(p) /\ p # MinIdOf(p)

\* No two hashed photos are within the threshold the setting gives.
NoQualifyingMatch ==
    \A p \in Hashed, q \in Hashed :
        p # q => PhotoDistance(p, q) > MaxDistance(SimilarityPct(config))

\* C8, as claimed. Clearing: when no two hashed photos are within
\* max_distance (one hashed photo or none included), every photo has no group
\* id and is no lead after a run, whatever was stored before.
C8_Clearing ==
    (pc = "done" /\ NoQualifyingMatch) =>
        \A p \in DOMAIN photos : IsNull(GroupIdOf(p)) /\ photos[p].is_duplicate_lead = 0

\* C8 where the code does clear: the same for a store with a hashed photo.
C8_ClearingWhenHashed ==
    (pc = "done" /\ NoQualifyingMatch /\ Hashed # {}) =>
        \A p \in DOMAIN photos : IsNull(GroupIdOf(p)) /\ photos[p].is_duplicate_lead = 0

\* C9, as claimed. Recompute from scratch: after a run, a store and a second
\* store with the same identifiers, hashes and qualities and other marks
\* before the run hold the same group ids and lead flags.
C9_FromScratch ==
    pc = "done" => Marks(photos) = Marks(twin)

\* C9 past the early return: the same for runs over a store with a hashed
\* photo.
C9_FromScratchWhenHashed ==
    (pc = "done" /\ Hashed # {}) => Marks(photos) = Marks(twin)

\* C10. Atomic persist: what another connection reads during a run is the
\* marks stored when the run started or, once the run has committed, the
\* marks it committed; never the cleared or a partly written table.
C10_AtomicPersist ==
    ~IsNull(observed) =>
        \/ Val(observed).marks = old_marks
        \/ /\ Val(observed).at = "done"
           /\ pc = "done"
           /\ Val(observed).marks = Marks(photos)

\* C10 witness: a read between the last UPDATE and the commit of a run that
\* replaces stored marks by a new group: the reader saw the old marks.
C10_Witness ==
    /\ ~IsNull(observed)
    /\ Val(observed).at = "commit"
    /\ pc = "done" /\ outcome = "marked"
    /\ Val(observed).marks # Marks(photos)
    /\ \E p \in DOMAIN photos : ~IsNull(old_marks[p].duplicate_group_id)

\* C11. A write that fails after the clearing UPDATE and before the commit
\* reaches the caller as an error, and the stored group ids and lead flags
\* are those from before the run, with no write left pending.
C11_AllOrNothing ==
    (pc = "raised" /\ outcome = "sqlite3.Error") =>
        /\ Marks(photos) = old_marks
        /\ conn = NULL

\* C11 witness: a run on a store with marks has cleared them and written one
\* row of its first group when its second write fails.
C11_Witness ==
    /\ pc = "raised" /\ outcome = "sqlite3.Error"
    /\ g = 1 /\ m = 2
    /\ \E p \in DOMAIN old_marks : ~IsNull(old_marks[p].duplicate_group_id)

\* The stored strings that are not the hex digits of a 64-bit value.
Malformed == {p \in Hashed : Val(photos[p].phash) \in {HashBad, HashLong}}

\* C12. A run on a store with a string that cannot be parsed into a 64-bit
\* value ends with an error in the load and never gets further; a run that
\* ended so left every group id and lead flag as it was; and no write is
\* issued while the run loads, compares and collects.
C12_NoSideEffects ==
    /\ Malformed # {} =>
          /\ pc \in {"idle", "load", "raised"}
          /\ outcome \in {"none", "running", "ValueError", "OverflowError"}
    /\ (pc = "raised" /\ outcome \in {"ValueError", "OverflowError"}) =>
          /\ Malformed # {}
          /\ Marks(photos) = old_marks
          /\ conn = NULL
    /\ pc \in {"load", "compare", "collect"} =>
          /\ Marks(photos) = old_marks
          /\ conn = NULL

\* C12 witness: a run has ended with OverflowError on a store whose photos 1
\* and 2 carried a group.
C12_Witness ==
    /\ pc = "raised" /\ outcome = "OverflowError"
    /\ \E p \in DOMAIN photos : ~IsNull(GroupIdOf(p))

\* The setting is absent or a percent of 0..100.
InRange == IsNull(config) \/ Val(config) \in 0..100

\* C13, as claimed. Under a setting outside 0..100 the run ends with a
\* configuration error before it reads the store: it never gets to the load,
\* and the group ids and lead flags stay as they were.
C13_ConfigError ==
    ~InRange =>
        /\ pc \in {"idle", "raised"}
        /\ pc = "raised" => outcome = "ConfigError"
        /\ Marks(photos) = old_marks

\* floor(64 * (100 - pct) / 100), as the integer k with k <= that quotient < k + 1.
Floor64(pct) ==
    CHOOSE k \in 0..64 : 100 * k <= 64 * (100 - pct) /\ 64 * (100 - pct) < 100 * (k + 1)

\* C14. Under a percent p of 0..100 (90 when the setting is absent) the run
\* compares with max_distance = floor(64 * (100 - p) / 100), a value of 0..64
\* that no smaller percent undercuts; p = 90 gives 6.
C14_Threshold ==
    (pc # "idle" /\ InRange) =>
        LET p == IF IsNull(config) THEN 90 ELSE Val(config)
        IN  /\ max_distance = Floor64(p)
            /\ max_distance \in 0..64
            /\ p = 90 => max_distance = 6
            /\ \A q \in 0..100 : q < p => MaxDistance(q) >= max_distance

\* C14 witness: a run under 37 percent compares with max_distance 40, the
\* floor of 40.32.
C14_Witness ==
    /\ pc = "compare"
    /\ config = Some(37)
    /\ max_distance = 40

\* C15. After a run under 100 percent two hashed photos share a group
\* exactly when their pHash values are the same 64 bits; after a run under 0
\* percent on a store with two or more hashed photos every hashed photo is in
\* group 1.
C15_Boundary ==
    Persisted =>
        /\ config = Some(100) =>
              /\ max_distance = 0
              /\ \A p \in Hashed, q \in Hashed :
                    p # q => ((~IsNull(GroupIdOf(p)) /\ GroupIdOf(p) = GroupIdOf(q))
                                <=> HashOf(p) = HashOf(q))
        /\ config = Some(0) =>
              /\ max_distance = 64
              /\ Cardinality(Hashed) >= 2 => \A p \in Hashed : GroupIdOf(p) = Some(1)

\* C15 witness: under 100 percent two photos whose stored strings differ in
\* the case of a letter, the same 64 bits, share a group, and a third photo
\* with another pHash has none.
C15_Witness ==
    /\ Persisted /\ config = Some(100)
    /\ \E p \in Hashed, q \in Hashed, r \in Hashed :
          /\ photos[p].phash # photos[q].phash
          /\ GroupIdOf(p) = Some(1) /\ GroupIdOf(q) = Some(1)
          /\ IsNull(GroupIdOf(r))

\* C16. The list a run works on holds exactly the photos with a pHash, in
\* ascending order of identifier (so each once), with an absent quality as
\* 0; every pair compared is a pair of that list; and a photo without a
\* pHash has no group id after a run that persisted.
C16_Loader ==
    /\ pc \notin {"idle", "load"} =>
          /\ DOMAIN paths = 0..(Cardinality(Hashed) - 1)
          /\ {paths[k] : k \in DOMAIN paths} = Hashed
          /\ \A j \in DOMAIN paths, k \in DOMAIN paths : j < k => paths[j] < paths[k]
          /\ DOMAIN aggregates = DOMAIN paths
          /\ \A k \in DOMAIN paths : aggregates[k] = Quality(paths[k])
          /\ \A k \in 1..Len(calls.compared) :
                calls.compared[k][1] \in DOMAIN paths /\ calls.compared[k][2] \in DOMAIN paths
    /\ \A p \in DOMAIN photos :
          IsNull(photos[p].phash) =>
              /\ IsNull(GroupIdOf(p)) \/ GroupIdOf(p) = old_marks[p].duplicate_group_id
              /\ Persisted => IsNull(GroupIdOf(p))

\* C16 witness: photo 1 has no pHash and carried a group id, photos 2 and 3
\* are the list and end in a group, photo 2 without a quality.
C16_Witness ==
    /\ Persisted /\ outcome = "marked"
    /\ IsNull(photos[1].phash) /\ ~IsNull(old_marks[1].duplicate_group_id)
    /\ IsNull(photos[2].aggregate)
    /\ paths[0] = 2 /\ paths[1] = 3
    /\ GroupIdOf(2) = Some(1) /\ GroupIdOf(3) = Some(1)

\* The index pairs (i, j), i < j, of the list of the run.
IndexPairs == {e \in (DOMAIN paths) \X (DOMAIN paths) : e[1] < e[2]}

\* The run has left its comparison loops.
Compared == pc \notin {"idle", "load", "compare", "raised"}

\* C17. Whatever the chunk size, the loops never take a pair twice nor an
\* index with itself, and when they end they have computed the distance of
\* every index pair i < j exactly once and called union exactly for the pairs
\* within max_distance, once each.
C17_PairCoverage ==
    LET compared == calls.compared
        united == calls.united
    IN  /\ \A k \in 1..Len(compared) :
              /\ compared[k][1] < compared[k][2]
              /\ \A l \in 1..Len(compared) : compared[k] = compared[l] => k = l
        /\ Compared =>
              /\ {compared[k] : k \in 1..Len(compared)} = IndexPairs
              /\ Len(compared) = Cardinality(IndexPairs)
              /\ {united[k] : k \in 1..Len(united)} =
                    {e \in IndexPairs : PhotoDistance(paths[e[1]], paths[e[2]]) <= max_distance}
              /\ \A k \in 1..Len(united), l \in 1..Len(united) : united[k] = united[l] => k = l

\* C17 witness: four photos compared in chunks of two rows, six pairs, some
\* united and some not.
C17_Witness ==
    /\ pc = "collect"
    /\ csize = 2
    /\ Size(paths) = 4
    /\ Len(calls.compared) = 6
    /\ Len(calls.united) \in 1..5

C19_Frame ==
    [][/\ DOMAIN photos' = DOMAIN photos
       /\ \A p \in DOMAIN photos :
             /\ DOMAIN photos'[p] = DOMAIN photos[p]
             /\ photos'[p].phash = photos[p].phash
             /\ photos'[p].aggregate = photos[p].aggregate]_vars

\* C19 witness: a run has committed group ids and lead flags other than those
\* it found, on photos that have a pHash and a quality.
C19_Witness ==
    /\ pc = "done" /\ outcome = "marked"
    /\ Marks(photos) # old_marks
    /\ \E p \in Grouped : ~IsNull(photos[p].aggregate)

\* Bit k (0 the lowest, 63 the top bit) of a uint64, and the positions in
\* which two of them differ.
Bit(v, k) == (v[(k \div 8) + 1] \div (2 ^ (k % 8))) % 2
Differing(x, y) == {k \in 0..63 : Bit(x, k) # Bit(y, k)}

\* C20. The distance computed for two uint64 values, the byte popcounts of
\* their xor summed over the 8 bytes, is the number of bit positions in which
\* they differ: 0 for equal values, 64 for 0 and 2^64 - 1, 1 for values that
\* differ in one bit, and the same in either order.
C20_Distance ==
    ~IsNull(probe) =>
        LET x == Val(probe).x
            y == Val(probe).y
            d == Val(probe).distance
        IN  /\ d = Cardinality(Differing(x, y))
            /\ x = y => d = 0
            /\ (x = Zero64 /\ y = Ones64) => d = 64
            /\ Cardinality(Differing(x, y)) = 1 => d = 1
            /\ d = Distance(y, x)

\* C20 witness: the distance of the value with the top bit alone to the value
\* with every bit is 63.
C20_Witness ==
    /\ ~IsNull(probe)
    /\ Val(probe).x = OneBit(63)
    /\ Val(probe).y = Ones64
    /\ Val(probe).distance = 63

\* The api_start_scan request of thread r is between its acquire of the lock
\* and its release.
InCritical(r) ==
    request[r].pc \in {"check", "validate", "popen", "update", "thread", "release", "except"}

\* The step is one of the request of thread r.
StepOf(r) == request'[r] # request[r]

\* The step starts a scan subprocess.
Starts == Len(scans') > Len(scans)

\* C22. Only one scan at a time: under any interleaving of api_start_scan
\* requests and reader threads, a step that starts a scan subprocess is taken
\* while _scan_state['running'] is false, by the request that holds
\* _scan_lock, no other request being between an acquire and a release; a
\* request that finds the lock held or a scan running gets 409 on the spot
\* (and only such a request gets 409); a request that has returned, on any
\* path, does not hold the lock, which is held only between an acquire and a
\* release; so a request that finds the lock free gets it and, finding no
\* scan running, goes on to start one.
C22_OneScan ==
    [][ /\ Starts =>
              \E r \in Requests :
                  /\ StepOf(r)
                  /\ scan_lock = r
                  /\ ~scan_state.running
                  /\ \A q \in Requests \ {r} : ~InCritical(q)
        /\ scan_lock' # ScanLockFree => InCritical(scan_lock)'
        /\ \A r \in Requests :
              LET refused == \/ request[r].pc = "acquire" /\ scan_lock # ScanLockFree
                             \/ request[r].pc = "check" /\ scan_state.running
                  allowed == \/ request[r].pc = "acquire" /\ scan_lock = ScanLockFree
                             \/ request[r].pc = "check" /\ ~scan_state.running
              IN  /\ request'[r].pc \in {"idle", "acquire", "returned"} => scan_lock' # r
                  /\ StepOf(r) /\ refused
                        => request'[r] = Returned(409) /\ ~Starts
                  /\ StepOf(r) /\ request'[r].response = Some(409) => refused
                  /\ StepOf(r) /\ allowed
                        => /\ scan_lock' = r
                           /\ request'[r].pc = (IF request[r].pc = "acquire"
                                                THEN "check" ELSE "validate")
      ]_vars

\* A first scan ran to its end and its reader thread cleared the flag; a
\* later request has started the second scan and holds the lock, while the
\* request of another thread, finding the lock held, got 409.
C22_Witness ==
    /\ Len(scans) = 2
    /\ scans[1].reader = "done"
    /\ \E r \in Requests, q \in Requests :
          /\ request[r].pc = "update"
          /\ request[r].proc = Some(2)
          /\ scan_lock = r
          /\ request[q] = Returned(409)

\* ------------------------------------------------------ sets of a forest

RECURSIVE Climb(_, _)
\* The element the parent links lead to from x, nothing being changed.
Climb(parent, x) == IF parent[x] = x THEN x ELSE Climb(parent, parent[x])

RECURSIVE Ancestor(_, _, _)
\* The element k parent links above x.
Ancestor(parent, x, k) == IF k = 0 THEN x ELSE Ancestor(parent, parent[x], k - 1)

RootsOf(u) == {x \in DOMAIN u.parent : u.parent[x] = x}
SetOf(u, x) == {y \in DOMAIN u.parent : Climb(u.parent, y) = Climb(u.parent, x)}
Partition(u) == {SetOf(u, x) : x \in DOMAIN u.parent}

\* The last call on uf was one of method op.
Called(op) == ~IsNull(uf_call) /\ Val(uf_call).op = op

\* C23. find(x) returns the root of x's set: an element r with parent[r] = r
\* that the parent links lead to from x; and its path compression changes
\* neither the partition nor any root nor the rank array: every element y has
\* the same root before and after the call.
C23_Find ==
    Called("find") =>
        LET call == Val(uf_call)
            before == call.before
            r == Val(call.result)
        IN  /\ before.parent[r] = r
            /\ r = Climb(before.parent, call.a)
            /\ uf.parent[r] = r
            /\ \A y \in DOMAIN before.parent :
                  Climb(uf.parent, y) = Climb(before.parent, y)
            /\ Partition(uf) = Partition(before)
            /\ RootsOf(uf) = RootsOf(before)
            /\ uf.rank = before.rank

\* A find call that compressed a path: x was two links below its root and
\* hangs from the root after the call.
C23_Witness ==
    /\ Called("find")
    /\ LET call == Val(uf_call)
       IN  /\ call.before.parent[call.a] # Val(call.result)
           /\ call.before.parent[call.a] # call.a
           /\ uf.parent[call.a] = Val(call.result)

\* C24. union(a, b): when a and b already have the same root, the partition,
\* the set of roots and the rank array are unchanged; when their roots
\* differ, the two sets become one whose root is the root of higher rank, or
\* a's root on equal rank, whose rank grows by 1 on equal rank and not
\* otherwise, the number of sets decreases by exactly 1 and every other set,
\* root and rank is unchanged.
C24_Union ==
    Called("union") =>
        LET call == Val(uf_call)
            before == call.before
            ra == Climb(before.parent, call.a)
            rb == Climb(before.parent, call.b)
            top == IF before.rank[ra] > before.rank[rb] THEN ra
                   ELSE IF before.rank[rb] > before.rank[ra] THEN rb
                   ELSE ra
        IN  IF ra = rb
            THEN /\ Partition(uf) = Partition(before)
                 /\ RootsOf(uf) = RootsOf(before)
                 /\ \A y \in DOMAIN before.parent :
                       Climb(uf.parent, y) = Climb(before.parent, y)
                 /\ uf.rank = before.rank
            ELSE /\ \A y \in DOMAIN before.parent :
                       Climb(uf.parent, y) =
                           IF Climb(before.parent, y) \in {ra, rb} THEN top
                           ELSE Climb(before.parent, y)
                 /\ SetOf(uf, call.a) = SetOf(before, call.a) \cup SetOf(before, call.b)
                 /\ RootsOf(uf) = RootsOf(before) \ ({ra, rb} \ {top})
                 /\ Cardinality(Partition(uf)) = Cardinality(Partition(before)) - 1
                 /\ Partition(before) \ {SetOf(before, call.a), SetOf(before, call.b)}
                        \subseteq Partition(uf)
                 /\ \A y \in DOMAIN before.rank :
                       uf.rank[y] = IF y = top /\ before.rank[ra] = before.rank[rb]
                                    THEN before.rank[y] + 1 ELSE before.rank[y]

\* A union of two sets whose roots differ in rank, b's being the higher: b's
\* root is the root of the merged set and no rank changed.
C24_Witness ==
    /\ Called("union")
    /\ LET call == Val(uf_call)
           ra == Climb(call.before.parent, call.a)
           rb == Climb(call.before.parent, call.b)
       IN  /\ call.before.rank[ra] < call.before.rank[rb]
           /\ Climb(uf.parent, call.a) = rb
           /\ Cardinality(Partition(uf)) >= 2

\* C25. Union-find structural invariant: after any sequence of find and
\* union calls on a _UnionFind of n elements, every parent value is an index
\* in 0..n-1, the parent links form a forest whose only cycles are the
\* self-loops at roots (n links up from any element end at a root), and
\* every non-root x satisfies rank[x] < rank[parent[x]].
C25_Structure ==
    ~IsNull(uf_call) =>
        LET n == Size(uf.parent)
        IN  /\ DOMAIN uf.parent = 0..(n - 1)
            /\ DOMAIN uf.rank = 0..(n - 1)
            /\ \A x \in 0..(n - 1) : uf.parent[x] \in 0..(n - 1)
            /\ \A x \in 0..(n - 1) :
                  LET top == Ancestor(uf.parent, x, n)
                  IN  uf.parent[top] = top
            /\ \A x \in 0..(n - 1) :
                  uf.parent[x] # x => uf.rank[x] < uf.rank[uf.parent[x]]

\* After a union, a tree two links deep under a root of rank 2, beside at
\* least the elements of that tree.
C25_Witness ==
    /\ Called("union")
    /\ \E x \in DOMAIN uf.parent :
          /\ uf.parent[x] # x
          /\ uf.parent[uf.parent[x]] # uf.parent[x]
          /\ uf.rank[Climb(uf.parent, x)] = 2

\* The pairs of indices compared so far that match, in both directions.
ProcessedMatches ==
    LET found == UNION {IF Distance(hashes[calls.compared[k][1]], hashes[calls.compared[k][2]])
                              <= max_distance
                        THEN {calls.compared[k]} ELSE {} : k \in 1..Len(calls.compared)}
    IN  found \cup {<<e[2], e[1]>> : e \in found}

\* C26. Comparison loop invariant: at every point of the compare phase (before
\* the first row, between two rows, after the last), two indices have the
\* same union-find root if and only if a chain of matching pairs among the
\* pairs (i, j) already compared connects them; before the first comparison
\* every index is its own singleton set.
C26_LoopInvariant ==
    pc \in {"compare", "collect"} =>
        LET edges == ProcessedMatches
        IN  /\ \A x \in DOMAIN hashes, y \in DOMAIN hashes :
                  (Climb(uf.parent, x) = Climb(uf.parent, y)) <=> (y \in Grow(edges, {x}))
            /\ Len(calls.compared) = 0 =>
                  /\ DOMAIN uf.parent = DOMAIN hashes
                  /\ \A x \in DOMAIN hashes : uf.parent[x] = x

\* In the middle of the loops: a row has been compared and united with a
\* later index through a pHash at distance 6, while two later rows that match
\* are still in different sets, their pair not being compared yet.
C26_Witness ==
    /\ pc = "compare"
    /\ Len(calls.united) >= 1
    /\ \E e \in ProcessedMatches : hashes[e[1]] # hashes[e[2]]
    /\ \E x \in DOMAIN hashes, y \in DOMAIN hashes :
          /\ abs_i <= x /\ x < y
          /\ Distance(hashes[x], hashes[y]) <= max_distance
          /\ Climb(uf.parent, x) # Climb(uf.parent, y)

RECURSIVE PlainLoop(_, _, _, _, _)
\* A plain nested loop over all pairs a < b of indices, in order, uniting
\* those within the limit.
PlainLoop(u, hs, limit, a, b) ==
    IF a >= Size(hs) THEN u
    ELSE IF b >= Size(hs) THEN PlainLoop(u, hs, limit, a + 1, a + 2)
    ELSE PlainLoop(IF Distance(hs[a], hs[b]) <= limit THEN union(u, a, b) ELSE u,
                   hs, limit, a, b + 1)

RECURSIVE PlainWrite(_, _, _, _, _, _)
\* The table after the writes for the groups from the k-th and its j-th
\* member on, the k-th group getting id k.
PlainWrite(table, items, ps, aggs, k, j) ==
    IF k > Len(items) THEN table
    ELSE IF j > Len(items[k].members) THEN PlainWrite(table, items, ps, aggs, k + 1, 1)
    ELSE LET idx == items[k].members[j]
             is_lead == IF idx = BestIdx(items[k].members, aggs) THEN 1 ELSE 0
         IN  PlainWrite(UpdateMarks(table, k, is_lead, ps[idx]), items, ps, aggs, k, j + 1)

\* The marks a run stores for loaded rows ps, aggs, hs when the plain nested
\* loop stands in the place of the chunked scan.
PlainMarks(table, ps, aggs, hs, limit) ==
    LET u == PlainLoop(UnionFind(Size(hs)), hs, limit, 0, 1)
        groups == FilterGroups(CollectLoop(u, <<>>, 0, Size(hs)).groups)
    IN  Marks(PlainWrite(ClearAll(table), SortedItems(groups), ps, aggs, 1, 1))

\* The chunk of the scan that row p of the table falls in.
ChunkOf(p) == (p - 1) \div csize

\* C27. Chunking is not observable: for a fixed corpus and setting, the
\* persisted group membership, leads and group ids are, for every chunk size
\* C >= 1 (C = 1, C = n and C > n included), those of a plain nested loop
\* over all pairs i < j, hence the same for all chunk sizes.
C27_Chunking ==
    Persisted => Marks(photos) = PlainMarks(photos, paths, aggregates, hashes, max_distance)

\* A run in several chunks has stored a group with members of different
\* chunks.
C27_Witness ==
    /\ Persisted
    /\ outcome = "marked"
    /\ csize > 1
    /\ csize < Size(paths)
    /\ \E p \in Grouped, q \in Grouped :
          /\ GroupIdOf(p) = GroupIdOf(q)
          /\ ChunkOf(p) # ChunkOf(q)
          /\ Val(photos[p].phash) # Val(photos[q].phash)

\* The phase a statement of detect_duplicates belongs to: load, compare,
\* group, then the persist loop, in which each group's lead is selected
\* right before the group's writes (line 153).
PhaseOf(at) ==
    CASE at = "idle" -> 0
      [] at = "load" -> 1
      [] at = "compare" -> 2
      [] at = "collect" -> 3
      [] at \in {"nodup_clear", "nodup_commit", "clear", "write", "commit"} -> 4
      [] at \in {"done", "raised"} -> 5

Share(marks, p, q) ==
    /\ ~IsNull(marks[p].duplicate_group_id)
    /\ marks[p].duplicate_group_id = marks[q].duplicate_group_id

\* The first grouping refines the second.
Refines(fine, coarse) ==
    \A p \in DOMAIN fine, q \in DOMAIN fine : Share(fine, p, q) => Share(coarse, p, q)

\* C29. Threshold monotonicity: for a fixed corpus and percents p1 <= p2 in
\* 0..100, any two photos that share a group after a run at p2 also share a
\* group after a run at p1 (whichever of the two runs comes first): raising
\* the percent never merges groups and never adds a photo to a group.
C29_Monotone ==
    (Persisted /\ ~IsNull(prev_run) /\ Val(prev_run).outcome \in {"marked", "no_duplicates"}) =>
        LET before == Val(prev_run)
            pct == SimilarityPct(config)
        IN  /\ before.pct <= pct => Refines(Marks(photos), before.marks)
            /\ pct <= before.pct => Refines(before.marks, Marks(photos))

\* A run at 90 percent grouped two photos and left a third alone; the run at
\* 80 percent that followed put all three in one group.
C29_Witness ==
    /\ Persisted
    /\ ~IsNull(prev_run)
    /\ Val(prev_run).pct = 90
    /\ SimilarityPct(config) = 80
    /\ \E p \in DOMAIN photos, q \in DOMAIN photos, r \in DOMAIN photos :
          /\ p # q
          /\ Share(Val(prev_run).marks, p, q)
          /\ IsNull(Val(prev_run).marks[r].duplicate_group_id)
          /\ Share(Marks(photos), p, q)
          /\ Share(Marks(photos), p, r)

\* The locals of the caller with the given id.
LocalsOf(id) == IF id = ActiveRun THEN Locals ELSE other

\* The complete output of a run: the marks its UPDATEs give the table, from
\* the rows it loaded.
OutputOf(run) ==
    PlainMarks(photos, run.paths, run.aggregates, run.hashes, run.max_distance)

\* The rows a run loads from the store as it is now.
LoadedNow ==
    LET rows == SelectRows(photos)
    IN  [paths      |-> rows,
         aggregates |-> [k \in DOMAIN rows |-> ScoreOrZero(photos[rows[k]].aggregate)],
         hashes     |-> [k \in DOMAIN rows |-> hex_to_uint64(Val(photos[rows[k]].phash))],
         max_distance |-> MaxDistance(SimilarityPct(config))]

\* The run loaded the rows the store holds now.
LoadedAsNow(run) ==
    \/ Size(LoadedNow.paths) = 0
    \/ /\ run.paths = LoadedNow.paths
       /\ run.aggregates = LoadedNow.aggregates
       /\ run.hashes = LoadedNow.hashes

\* Both callers are back from detect_duplicates.
BothEnded == pc \in {"done", "raised"} /\ other.pc \in {"done", "raised"}

\* C30. Concurrent runs do not mix results: when two runs of
\* detect_duplicates have executed concurrently against the same store, under
\* every interleaving of their load and persist statements the stored
\* group/lead state is the complete output of the run that committed last
\* (the state from before the runs when neither committed), never a mixture
\* of writes from both; when the identifiers, hashes and qualities the runs
\* loaded are those the store holds, it is the state a single run produces.
C30_NoMixture ==
    BothEnded =>
        /\ IsNull(last_commit) => Marks(photos) = old_marks
        /\ ~IsNull(last_commit) => Marks(photos) = OutputOf(LocalsOf(Val(last_commit)))
        /\ (LoadedAsNow(Locals) /\ LoadedAsNow(other) /\ Size(LoadedNow.paths) > 0)
              => Marks(photos) = OutputOf(LoadedNow)

\* The two runs loaded different scores and chose different leads for the
\* same group; the one that loaded the older scores committed last, after the
\* other, and its lead is the one stored.
C30_Witness ==
    /\ BothEnded
    /\ outcome = "marked"
    /\ other.outcome = "marked"
    /\ last_commit = Some(ActiveRun)
    /\ OutputOf(Locals) # OutputOf(other)
    /\ ~LoadedAsNow(Locals)
    /\ Marks(photos) = OutputOf(Locals)

====
